---- MODULE Spec2Model ----
(***************************************************************************)
(* Model of the AcctSolver chat client: the session state owned by App     *)
(* (messages, isLoading, selectedSubject), its durable snapshot in         *)
(* localStorage, the auto-save interval, and the requests in flight to     *)
(* sendMessageToGemini.                                                    *)
(*                                                                         *)
(* Texts are sequences of tokens; a token stands for a run of characters   *)
(* that the code never splits (for instance the literal "Generate          *)
(* Image:"), so that startsWith / trim / concatenation are computed.       *)
(*                                                                         *)
(* Spec, ConvSpec and LiveSpec run the session. The other specifications   *)
(* start from drawn inputs and run one part of the client on them:         *)
(* ToggleSpec the intent buttons on a draft, FileSpec the file picker,     *)
(* SearchSpec the search box, ClassifySpec isTextBased, and ServiceSpec    *)
(* one call of sendMessageToGemini (args and result hold the call).        *)
(***************************************************************************)
EXTENDS Integers, Sequences, FiniteSets, TLC

(* ------------------------------ bounds -------------------------------- *)

\* number of handleSendMessage calls explored in one behaviour
MaxSends == 2

\* number of messages created in one behaviour that also explores the search
\* box, the auto-save timers and page loads
MaxSavedMessages == 2

\* the wall clock: value of new Date() when no message was created yet, and
\* the time that passes between two message creations (milliseconds)
EpochMs == 1500
ClockStepMs == 700
\* the longest history handed to the service, and the most parts in a
\* response of the backend
MaxHistory == 2
MaxParts == 2
\* the longest media type, in tokens, handed to the classifier, and the most
\* dot-separated parts in the name of a selected file
MaxMediaLen == 3
MaxNameParts == 2
\* the longest draft, in tokens, that the input area starts from
MaxDraftLen == 4
\* the longest text typed or held in the specifications that draw texts
\* character by character
MaxSearchLen == 2

(* -------------------------- program constants ------------------------- *)

SaveIntervalMs == 30000
SavingDisplayMs == 2000

\* JavaScript undefined (an absent optional field; also the falsy empty
\* string of an optional text) and null
Undefined == <<>>
Null == "null"

SummaryPrompt ==
  <<"Please provide a concise summary of our conversation so far. Highlight any numerical problems solved and key accounting theory concepts we discussed.">>

HardFailureText == <<"I encountered an error while processing your request. Please try again.">>
SoftFailureText == <<"I analyzed the input but couldn't generate a text response. Please try clarifying your question.">>
ImageFallbackText == <<"Here is the visual representation you requested.">>

ImageIntentPrefix == <<"Generate Image:">>

(* ------------------------------ inputs -------------------------------- *)

Whitespace == {" ", "\n"}

\* the sequences over S of at most n elements
SeqsUpTo(S, n) == UNION { [1..k -> S] : k \in 0..n }

\* a data URL (FileReader.readAsDataURL), a media type and a file name are
\* texts: the comma, the dot and the type's family are tokens of their own
CsvAttachment ==
  [data |-> <<"data:text/csv;base64", ",", "YSxiCjEsMg==">>,
   mimeType |-> <<"text/", "csv">>, name |-> <<"a", ".", "csv">>]

\* what the user can have composed in the input area when pressing send
Compositions ==
  { [text |-> <<"Generate Image:", " ", "pie chart of expenses">>, attachment |-> Undefined],
    [text |-> <<>>, attachment |-> CsvAttachment],
    [text |-> <<" ">>, attachment |-> Undefined] }

\* the welcome screen's suggestion buttons (one of INITIAL_SUGGESTIONS)
Suggestions == { <<"What are the Golden Rules of Accounting?">> }

\* SUBJECTS[].name (one of them)
SubjectNames == { "Taxation" }

SearchTerms == { <<>>, <<"c", "a", "s", "h">> }

\* the prefixes of the three intent buttons
ExplainPrefix == <<"Explain the concept of", " ">>
ExamPrefix == <<"Exam Note:", " ">>
ChartPrefix == <<"Generate Image:", " ">>

\* the drafts of the input area's specification: the prefixes' tokens and a
\* word, in any order
DraftTokens == {"Explain the concept of", "Exam Note:", "Generate Image:", " ", "x"}
Drafts == SeqsUpTo(DraftTokens, MaxDraftLen)

\* the media types of the classifier's specification: families, subtypes
\* and pieces of subtypes, in any order
MediaTokens ==
  {"text/", "application/", "image/", "json", "xml", "x-yaml", "csv", "script", "pdf",
   "png", "octet-stream", "java", "plain"}
MediaTypes == SeqsUpTo(MediaTokens, MaxMediaLen)

OctetStream == <<"application/", "octet-stream">>

\* the files of the file picker's specification: names of one or more
\* dot-separated parts, and the type the browser declares (none, the
\* generic one, or a specific one)
NameParts ==
  {"report", "csv", "CSV", "md", "json", "Json", "pdf", "Pdf", "txt", "tsv", "xml", "yml",
   "yaml", "YAML", "png", "exe", "docx"}

RECURSIVE Dotted(_)
Dotted(parts) ==
  IF Len(parts) = 1 THEN parts ELSE <<Head(parts), ".">> \o Dotted(Tail(parts))

FileNames == { Dotted(parts) : parts \in SeqsUpTo(NameParts, MaxNameParts) \ {<<>>} }
DeclaredTypes ==
  { <<>>, OctetStream, <<"image/", "png">>, <<"text/", "plain">>,
    <<"application/", "vnd.ms-excel">> }
Files == [name : FileNames, type : DeclaredTypes]

\* the characters of the texts and terms of the search box's specification
SearchChars == {"a", "A", " "}
SearchTexts == SeqsUpTo(SearchChars, MaxSearchLen)

\* what the inference backend can answer: a failure of any kind, a text
\* answer, or a single inline image without text
BackendFailure == [ok |-> FALSE, text |-> <<>>, parts |-> <<>>]
BackendText ==
  [ok |-> TRUE, text |-> <<"Dr Cash 50,000">>,
   parts |-> << [inlineData |-> Undefined, text |-> <<"Dr Cash 50,000">>] >>]
BackendImage ==
  [ok |-> TRUE, text |-> <<>>,
   parts |-> << [inlineData |-> [mimeType |-> <<"image/", "png">>, data |-> <<"iVBOR">>],
                text |-> Undefined] >>]
BackendResponses == { BackendFailure, BackendText, BackendImage }

\* the inputs of the service's specification: attachments of a binary type,
PdfAttachment ==
  [data |-> <<"data:application/pdf;base64", ",", "JVBERi0x">>,
   mimeType |-> <<"application/", "pdf">>, name |-> <<"invoice", ".", "pdf">>]
PngAttachment ==
  [data |-> <<"data:image/png;base64", ",", "iVBOR">>,
   mimeType |-> <<"image/", "png">>, name |-> <<"ledger", ".", "png">>]
\* a text file whose payload is not base64,
MalformedCsvAttachment ==
  [data |-> <<"data:text/csv;base64", ",", "%%%">>,
   mimeType |-> <<"text/", "csv">>, name |-> <<"b", ".", "csv">>]
\* an empty file (nothing after the comma), raw base64 without the data URL
\* prefix, and a data string with a second comma
EmptyPdfAttachment ==
  [data |-> <<"data:application/pdf;base64", ",">>,
   mimeType |-> <<"application/", "pdf">>, name |-> <<"empty", ".", "pdf">>]
RawPngAttachment ==
  [data |-> <<"iVBOR">>, mimeType |-> <<"image/", "png">>, name |-> <<"raw", ".", "png">>]
TwoCommaPngAttachment ==
  [data |-> <<"data:image/png;base64", ",", "iVBOR", ",", "AAAA">>,
   mimeType |-> <<"image/", "png">>, name |-> <<"two", ".", "png">>]
ServiceAttachments ==
  { Undefined, CsvAttachment, PdfAttachment, PngAttachment, MalformedCsvAttachment,
    EmptyPdfAttachment, RawPngAttachment, TwoCommaPngAttachment }

\* prompts of the chat flow and of the image flow,
ServicePrompts ==
  { <<"What is depreciation?">>, <<>>, <<"Generate Image:", " ", "pie chart of expenses">> }

\* the messages a history is made of: what the user sent, with or without
\* an attachment, and what the model answered, with or without an image,
HistoryMessages ==
  { [role |-> "user", text |-> <<"sum column a">>, attachment |-> Undefined, image |-> Undefined],
    [role |-> "user", text |-> <<"sum column a">>, attachment |-> CsvAttachment,
     image |-> Undefined],
    [role |-> "user", text |-> <<>>, attachment |-> PdfAttachment, image |-> Undefined],
    [role |-> "user", text |-> <<"sum column a">>, attachment |-> MalformedCsvAttachment,
     image |-> Undefined],
    [role |-> "model", text |-> <<"Dr Cash 50,000">>, attachment |-> Undefined,
     image |-> Undefined],
    [role |-> "model", text |-> ImageFallbackText, attachment |-> Undefined,
     image |-> <<"data:", "image/", "png", ";base64", ",", "iVBOR">>] }

\* with the id and the timestamp of its place in the session
Stamped(messages) ==
  [i \in 1..Len(messages) |->
     [id |-> i, role |-> messages[i].role, text |-> messages[i].text,
      timestamp |-> EpochMs + i * ClockStepMs, attachment |-> messages[i].attachment,
      image |-> messages[i].image]]

Histories == { Stamped(messages) : messages \in SeqsUpTo(HistoryMessages, MaxHistory) }

ServiceCalls ==
  { [fn |-> "sendMessageToGemini", prompt |-> prompt, history |-> history,
     attachment |-> attachment] :
      prompt \in ServicePrompts, history \in Histories, attachment \in ServiceAttachments }

\* and the parts of a response: texts and inline images in any order
ResponseParts ==
  { [inlineData |-> Undefined, text |-> <<"Dr Cash 50,000">>],
    [inlineData |-> Undefined, text |-> <<"Cr Sales 50,000">>],
    [inlineData |-> [mimeType |-> <<"image/", "png">>, data |-> <<"iVBOR">>], text |-> Undefined],
    [inlineData |-> [mimeType |-> <<"image/", "jpeg">>, data |-> <<"R0lGOD">>],
     text |-> Undefined] }

\* response.text: the texts of the parts, joined
RECURSIVE ResponseText(_)
ResponseText(parts) ==
  IF parts = <<>> THEN <<>>
  ELSE (IF Head(parts).text # Undefined THEN Head(parts).text ELSE <<>>)
         \o ResponseText(Tail(parts))

ServiceResponses ==
  { BackendFailure } \cup
  { [ok |-> TRUE, text |-> ResponseText(parts), parts |-> parts] :
      parts \in SeqsUpTo(ResponseParts, MaxParts) }

(* ------------------------------ helpers ------------------------------- *)

StartsWith(s, p) == Len(s) >= Len(p) /\ SubSeq(s, 1, Len(p)) = p

RECURSIVE TrimStart(_)
TrimStart(s) == IF s # <<>> /\ Head(s) \in Whitespace THEN TrimStart(Tail(s)) ELSE s

RECURSIVE TrimEnd(_)
TrimEnd(s) ==
  IF s # <<>> /\ s[Len(s)] \in Whitespace THEN TrimEnd(SubSeq(s, 1, Len(s) - 1)) ELSE s

Trim(s) == TrimEnd(TrimStart(s))

\* String.prototype.toLowerCase, on the upper-case tokens the inputs use
UpperToLower ==
  [t \in {"A", "CSV", "Json", "YAML", "Pdf"} |->
     CASE t = "A" -> "a" [] t = "CSV" -> "csv" [] t = "Json" -> "json"
       [] t = "YAML" -> "yaml" [] t = "Pdf" -> "pdf"]

toLowerCase(s) ==
  [i \in 1..Len(s) |-> IF s[i] \in DOMAIN UpperToLower THEN UpperToLower[s[i]] ELSE s[i]]

\* String.prototype.includes
Includes(s, t) == \E i \in 1..(Len(s) + 1) : StartsWith(SubSeq(s, i, Len(s)), t)

\* String.prototype.split: the pieces of s between the separators
RECURSIVE Split(_, _)
Split(s, sep) ==
  IF \E i \in 1..Len(s) : s[i] = sep
  THEN LET i == CHOOSE k \in 1..Len(s) : s[k] = sep /\ \A j \in 1..(k - 1) : s[j] # sep
       IN << SubSeq(s, 1, i - 1) >> \o Split(SubSeq(s, i + 1, Len(s)), sep)
  ELSE << s >>

\* obj.key of a JavaScript object: undefined when the key is absent
Get(obj, k) == IF k \in DOMAIN obj THEN obj[k] ELSE Undefined

Last(s) == s[Len(s)]

\* new Date() at the creation of the n-th message of the run of the system
Now(n) == EpochMs + n * ClockStepMs

(* ------------------------- durable snapshot --------------------------- *)

\* ToISOString with the bug of writing the instant to the second only
ToISOString_WholeSeconds(ms) == << ms \div 1000, 0 >>

\* Date.prototype.toISOString as used by JSON.stringify: the instant is
\* written as its whole seconds and its milliseconds ("...:ss.mmmZ")
ToISOString(ms) == << ms \div 1000, ms % 1000 >>

\* new Date(isoString)
ParseDate(iso) == iso[1] * 1000 + iso[2]

\* the optional fields of Message
OptionalKeys == {"attachment", "image"}

\* JSON.stringify of one message: undefined fields are left out, the Date
\* becomes its ISO string
SerializeMessage(m) ==
  [k \in {f \in DOMAIN m : f \notin OptionalKeys \/ m[f] # Undefined} |->
     IF k = "timestamp" THEN ToISOString(m[k]) ELSE m[k]]

\* JSON.stringify(stateRef.current): the text of a JSON object
Serialize(st) ==
  [json |-> TRUE,
   tree |-> [type |-> "object",
             messages |-> [type |-> "array",
                           items |-> [i \in 1..Len(st.messages) |->
                                        SerializeMessage(st.messages[i])]],
             isLoading |-> st.isLoading,
             selectedSubject |-> st.selectedSubject]]

\* localStorage content under STORAGE_KEY
NoSnapshot == [json |-> FALSE, tree |-> [type |-> "absent"]]
NotJson == [json |-> FALSE, tree |-> [type |-> "garbage"]]
JsonNoMessages ==
  [json |-> TRUE, tree |-> [type |-> "object", isLoading |-> TRUE, selectedSubject |-> "Taxation"]]
JsonMessagesNotArray ==
  [json |-> TRUE,
   tree |-> [type |-> "object", messages |-> [type |-> "string"],
             isLoading |-> TRUE, selectedSubject |-> "Taxation"]]

\* what a first start can find in the store without this program having
\* written it
ForeignStores == { NoSnapshot, NotJson, JsonNoMessages, JsonMessagesNotArray }

DefaultState == [messages |-> <<>>, isLoading |-> FALSE, selectedSubject |-> Null]

MessageKeys == {"id", "role", "text", "timestamp", "attachment", "image"}

\* { ...msg, timestamp: new Date(msg.timestamp) }
RestoreMessage(j) ==
  [k \in MessageKeys |-> IF k = "timestamp" THEN ParseDate(j.timestamp) ELSE Get(j, k)]

\* does the body of the try block of the initializer throw?
RestoreThrows(store, readThrows) ==
  \/ readThrows
  \/ /\ store # NoSnapshot
     /\ \/ ~store.json
        \/ store.tree.type # "object"
        \/ "messages" \notin DOMAIN store.tree
        \/ store.tree.messages.type # "array"

\* RestoreState with the bug of defaulting only the messages when the
\* parsed value has no usable messages array (parsed.messages || [])
RestoreState_KeepsParsedTopic(store, readThrows) ==
  IF readThrows \/ store = NoSnapshot \/ ~store.json
  THEN DefaultState
  ELSE IF RestoreThrows(store, readThrows)
  THEN [messages |-> <<>>, isLoading |-> FALSE,
        selectedSubject |-> store.tree.selectedSubject]
  ELSE [messages |-> [i \in 1..Len(store.tree.messages.items) |->
                        RestoreMessage(store.tree.messages.items[i])],
        isLoading |-> FALSE,
        selectedSubject |-> store.tree.selectedSubject]

\* the useState initializer
RestoreState(store, readThrows) ==
  IF RestoreThrows(store, readThrows) \/ store = NoSnapshot
  THEN DefaultState
  ELSE [messages |-> [i \in 1..Len(store.tree.messages.items) |->
                        RestoreMessage(store.tree.messages.items[i])],
        isLoading |-> FALSE,
        selectedSubject |-> store.tree.selectedSubject]

(* ------------------------- inference service -------------------------- *)

ImageModel == "gemini-2.5-flash-image"
ChatModel == "gemini-2.5-flash"

\* isTextBased with the bug of knowing the text/ family only
isTextBased_TextFamilyOnly(mimeType) == StartsWith(mimeType, <<"text/">>)

isTextBased(mimeType) ==
  \/ StartsWith(mimeType, <<"text/">>)
  \/ mimeType = <<"application/", "json">>
  \/ mimeType = <<"application/", "xml">>
  \/ mimeType = <<"application/", "x-yaml">>
  \/ Includes(mimeType, <<"csv">>)
  \/ Includes(mimeType, <<"script">>)

\* atob and TextDecoder on the payloads that are base64 of a text; atob
\* throws on any other payload
Base64Texts == { <<"YSxiCjEsMg==">> }
atob(base64) == CASE base64 = <<"YSxiCjEsMg==">> -> <<"a,b", "\n", "1,2">>

\* decodeBase64Text with the bug of passing on a payload it cannot decode
decodeBase64Text_KeepsRawPayload(base64) ==
  IF base64 \in Base64Texts THEN atob(base64) ELSE base64

\* atob throws on a malformed payload; the catch returns ""
decodeBase64Text(base64) == IF base64 \in Base64Texts THEN atob(base64) ELSE <<>>

\* data.split(',')[1] || data
Base64Data(data) ==
  LET pieces == Split(data, ",")
  IN IF Len(pieces) >= 2 /\ pieces[2] # <<>> THEN pieces[2] ELSE data

\* HistoryParts with the bug of sending every attachment as inline data
HistoryParts_InlineOnly(msg) ==
  LET fileParts ==
        IF msg.attachment # Undefined
        THEN << [text |-> <<"[Attached File: ">> \o msg.attachment.name \o <<"]">>],
                [inlineData |-> [mimeType |-> msg.attachment.mimeType,
                                 data |-> Base64Data(msg.attachment.data)]] >>
        ELSE << >>
  IN Append(fileParts, [text |-> msg.text])

\* the parts of a message of the history
HistoryParts(msg) ==
  LET fileParts ==
        IF msg.attachment # Undefined
        THEN LET base64Data == Base64Data(msg.attachment.data) IN
             IF isTextBased(msg.attachment.mimeType)
             THEN << [text |-> <<"[Attached File: ">> \o msg.attachment.name \o <<"]", "\n">>
                                 \o decodeBase64Text(base64Data)
                                 \o <<"\n", "[End of File]">>] >>
             ELSE << [text |-> <<"[Attached File: ">> \o msg.attachment.name \o <<"]">>],
                     [inlineData |-> [mimeType |-> msg.attachment.mimeType,
                                      data |-> base64Data]] >>
        ELSE IF msg.image # Undefined
        THEN << [inlineData |-> [mimeType |-> <<"image/", "jpeg">>,
                                 data |-> Base64Data(msg.image)]] >>
        ELSE << >>
  IN Append(fileParts, [text |-> msg.text])

\* CurrentParts with the bug of leaving out the text part of an empty prompt
CurrentParts_SkipsEmptyPrompt(prompt, attachment) ==
  LET fileParts ==
        IF attachment # Undefined
        THEN LET base64Data == Base64Data(attachment.data) IN
             IF isTextBased(attachment.mimeType)
             THEN << [text |-> <<"[Attached File: ">> \o attachment.name \o <<"]", "\n">>
                                 \o decodeBase64Text(base64Data)
                                 \o <<"\n", "[End of File]", "\n", "\n">>] >>
             ELSE << [text |-> <<"[Attached File: ">> \o attachment.name \o <<"]">>],
                     [inlineData |-> [mimeType |-> attachment.mimeType,
                                      data |-> base64Data]] >>
        ELSE << >>
  IN IF prompt # <<>> THEN Append(fileParts, [text |-> prompt]) ELSE fileParts

\* the parts of the message being sent
CurrentParts(prompt, attachment) ==
  LET fileParts ==
        IF attachment # Undefined
        THEN LET base64Data == Base64Data(attachment.data) IN
             IF isTextBased(attachment.mimeType)
             THEN << [text |-> <<"[Attached File: ">> \o attachment.name \o <<"]", "\n">>
                                 \o decodeBase64Text(base64Data)
                                 \o <<"\n", "[End of File]", "\n", "\n">>] >>
             ELSE << [text |-> <<"[Attached File: ">> \o attachment.name \o <<"]">>],
                     [inlineData |-> [mimeType |-> attachment.mimeType,
                                      data |-> base64Data]] >>
        ELSE << >>
  IN Append(fileParts, [text |-> prompt])

\* GeminiRequest with the bug of sending the attachment along with an image
\* prompt
GeminiRequest_ImageWithAttachment(prompt, history, attachment) ==
  IF StartsWith(prompt, ImageIntentPrefix)
  THEN LET imagePrompt == Trim(SubSeq(prompt, Len(ImageIntentPrefix) + 1, Len(prompt)))
       IN [model |-> ImageModel, contents |-> [parts |-> CurrentParts(imagePrompt, attachment)]]
  ELSE [model |-> ChatModel,
        contents |-> [i \in 1..(Len(history) + 1) |->
                        IF i <= Len(history)
                        THEN [role |-> history[i].role, parts |-> HistoryParts(history[i])]
                        ELSE [role |-> "user", parts |-> CurrentParts(prompt, attachment)]]]

\* GeminiRequest with the bug of putting the message being sent in front of
\* the history
GeminiRequest_CurrentFirst(prompt, history, attachment) ==
  IF StartsWith(prompt, ImageIntentPrefix)
  THEN LET imagePrompt == Trim(SubSeq(prompt, Len(ImageIntentPrefix) + 1, Len(prompt)))
       IN [model |-> ImageModel, contents |-> [parts |-> << [text |-> imagePrompt] >>]]
  ELSE [model |-> ChatModel,
        contents |-> [i \in 1..(Len(history) + 1) |->
                        IF i > 1
                        THEN [role |-> history[i - 1].role,
                              parts |-> HistoryParts(history[i - 1])]
                        ELSE [role |-> "user", parts |-> CurrentParts(prompt, attachment)]]]

\* what sendMessageToGemini hands to ai.models.generateContent
GeminiRequest(prompt, history, attachment) ==
  IF StartsWith(prompt, ImageIntentPrefix)
  THEN LET imagePrompt == Trim(SubSeq(prompt, Len(ImageIntentPrefix) + 1, Len(prompt)))
       IN [model |-> ImageModel, contents |-> [parts |-> << [text |-> imagePrompt] >>]]
  ELSE [model |-> ChatModel,
        contents |-> [i \in 1..(Len(history) + 1) |->
                        IF i <= Len(history)
                        THEN [role |-> history[i].role, parts |-> HistoryParts(history[i])]
                        ELSE [role |-> "user", parts |-> CurrentParts(prompt, attachment)]]]

\* the loop over response.candidates[0].content.parts of the image flow
RECURSIVE ImageParts(_, _, _)
ImageParts(parts, text, generatedImage) ==
  IF parts = <<>> THEN [text |-> text, generatedImage |-> generatedImage]
  ELSE LET part == Head(parts) IN
       IF part.inlineData # Undefined
       THEN ImageParts(Tail(parts), text,
                       <<"data:">> \o part.inlineData.mimeType \o <<";base64", ",">>
                         \o part.inlineData.data)
       ELSE IF part.text # Undefined /\ part.text # <<>>
       THEN ImageParts(Tail(parts), text \o part.text, generatedImage)
       ELSE ImageParts(Tail(parts), text, generatedImage)

\* sendMessageToGemini with the bug of returning whatever text the response
\* has, and of letting a failure through with no text
sendMessageToGemini_NoCannedTexts(prompt, history, attachment, backend) ==
  IF ~backend.ok
  THEN [text |-> <<>>, generatedImage |-> Undefined]
  ELSE IF StartsWith(prompt, ImageIntentPrefix)
  THEN ImageParts(backend.parts, <<>>, Undefined)
  ELSE [text |-> backend.text, generatedImage |-> Undefined]

\* sendMessageToGemini: the GeminiResponse for a prompt, given what the
\* backend answers
sendMessageToGemini(prompt, history, attachment, backend) ==
  IF ~backend.ok
  THEN [text |-> HardFailureText, generatedImage |-> Undefined]
  ELSE IF StartsWith(prompt, ImageIntentPrefix)
  THEN LET r == ImageParts(backend.parts, <<>>, Undefined) IN
       [text |-> IF r.text # <<>> THEN r.text ELSE ImageFallbackText,
        generatedImage |-> r.generatedImage]
  ELSE IF backend.text # <<>>
  THEN [text |-> backend.text, generatedImage |-> Undefined]
  ELSE [text |-> SoftFailureText, generatedImage |-> Undefined]

(* ------------------------------- state -------------------------------- *)

VARIABLES
  state,        \* ChatState: messages, isLoading, selectedSubject
  searchTerm,   \* the search box
  isSaving,     \* the "Autosaving..." indicator
  saveTimers,   \* pending setTimeout callbacks that hide the indicator
  storage,      \* localStorage[STORAGE_KEY]
  inflight,     \* calls of sendMessageToGemini that have not resolved yet
  nextId,       \* messages created so far (uuidv4 and the clock)
  sent,         \* handleSendMessage calls so far
  lastOp,       \* the handler that ran last, its input, and whether it threw
  outlivedReset, \* ids of the calls that were pending when a reset was confirmed
  inputText,    \* InputArea: the draft in the text box
  selectedAttachment, \* InputArea: the attachment waiting to be sent
  args,         \* the input handed to a function of the service or to the file picker
  result        \* what the function returned for args

vars == << state, searchTerm, isSaving, saveTimers, storage, inflight, nextId, sent,
           lastOp, outlivedReset, inputText, selectedAttachment, args, result >>

\* App's own state, InputArea's state, and a function call under study
appVars == << state, searchTerm, isSaving, saveTimers, storage, inflight, nextId, sent,
              lastOp, outlivedReset >>
inputVars == << inputText, selectedAttachment >>
callVars == << args, result >>

\* no function call is being studied
NoCall == [fn |-> "none"]

Op(name, id, arg, threw) == [op |-> name, id |-> id, arg |-> arg, threw |-> threw]

InflightIds == { r.id : r \in inflight }

Init ==
  /\ storage \in ForeignStores
  /\ \E readThrows \in BOOLEAN :
       /\ state = RestoreState(storage, readThrows)
       /\ lastOp = Op("start", 0, readThrows, FALSE)
  /\ searchTerm = <<>>
  /\ isSaving = FALSE
  /\ saveTimers = 0
  /\ inflight = {}
  /\ nextId = 1
  /\ sent = 0
  /\ outlivedReset = {}
  /\ inputText = <<>>
  /\ selectedAttachment = Undefined
  /\ args = NoCall
  /\ result = NoCall

(* ------------------------------ actions ------------------------------- *)

\* handleSendMessage with the bug of capturing the history after the new
\* message has been appended
handleSendMessage_HistoryAfterAppend(text, attachment, opName) ==
  LET userMsg == [id |-> nextId, role |-> "user", text |-> text,
                  timestamp |-> Now(nextId), attachment |-> attachment,
                  image |-> Undefined]
      currentHistory == Append(state.messages, userMsg)
      promptContext == IF state.selectedSubject # Null
                       THEN <<"[Subject: ", state.selectedSubject, "] ">> \o text
                       ELSE text
  IN /\ sent < MaxSends
     /\ searchTerm' = <<>>
     /\ state' = [state EXCEPT !.messages = Append(@, userMsg), !.isLoading = TRUE]
     /\ inflight' = inflight \cup
                      { [id |-> nextId, prompt |-> promptContext,
                         history |-> currentHistory, attachment |-> attachment] }
     /\ nextId' = nextId + 1
     /\ sent' = sent + 1
     /\ lastOp' = Op(opName, nextId, attachment # Undefined, FALSE)
     /\ UNCHANGED << isSaving, saveTimers, storage, outlivedReset, args, result >>

\* handleSendMessage(text, attachment) up to its await
handleSendMessage(text, attachment, opName) ==
  LET userMsg == [id |-> nextId, role |-> "user", text |-> text,
                  timestamp |-> Now(nextId), attachment |-> attachment,
                  image |-> Undefined]
      currentHistory == state.messages
      promptContext == IF state.selectedSubject # Null
                       THEN <<"[Subject: ", state.selectedSubject, "] ">> \o text
                       ELSE text
  IN /\ sent < MaxSends
     /\ searchTerm' = <<>>
     /\ state' = [state EXCEPT !.messages = Append(@, userMsg), !.isLoading = TRUE]
     /\ inflight' = inflight \cup
                      { [id |-> nextId, prompt |-> promptContext,
                         history |-> currentHistory, attachment |-> attachment] }
     /\ nextId' = nextId + 1
     /\ sent' = sent + 1
     /\ lastOp' = Op(opName, nextId, attachment # Undefined, FALSE)
     /\ UNCHANGED << isSaving, saveTimers, storage, outlivedReset, args, result >>

\* InputArea.handleSend: the send button or the Enter key
handleSend(c) ==
  /\ ~((Trim(c.text) = <<>> /\ c.attachment = Undefined) \/ state.isLoading)
  /\ handleSendMessage(c.text, c.attachment, "send")
  /\ inputText' = <<>>
  /\ selectedAttachment' = Undefined

\* a suggestion button of the welcome screen, rendered while there are no
\* messages
onSelectSuggestion(text) ==
  /\ state.messages = <<>>
  /\ handleSendMessage(text, Undefined, "suggestion")
  /\ UNCHANGED inputVars

\* the Summarize Chat button
handleSummarize ==
  /\ Len(state.messages) # 0
  /\ handleSendMessage(SummaryPrompt, Undefined, "summarize")
  /\ UNCHANGED inputVars

\* ResponseArrives with the bug of letting a backend failure reject the
\* awaited call: the handler ends there and nothing is appended
ResponseArrives_FailureRejects(r, backend) ==
  LET response == sendMessageToGemini(r.prompt, r.history, r.attachment, backend)
      aiMsg == [id |-> nextId, role |-> "model", text |-> response.text,
                timestamp |-> Now(nextId), attachment |-> Undefined,
                image |-> response.generatedImage]
  IN /\ r \in inflight
     /\ IF backend.ok
        THEN /\ state' = [state EXCEPT !.messages = Append(@, aiMsg), !.isLoading = FALSE]
             /\ nextId' = nextId + 1
        ELSE UNCHANGED << state, nextId >>
     /\ inflight' = inflight \ {r}
     /\ lastOp' = Op("response", r.id, backend.ok, ~backend.ok)
     /\ UNCHANGED << searchTerm, isSaving, saveTimers, storage, sent, outlivedReset >>
     /\ UNCHANGED << inputVars, callVars >>

\* ResponseArrives with the bug of dropping a response whose user message is
\* no longer in the session
ResponseArrives_DropsStale(r, backend) ==
  LET response == sendMessageToGemini(r.prompt, r.history, r.attachment, backend)
      aiMsg == [id |-> nextId, role |-> "model", text |-> response.text,
                timestamp |-> Now(nextId), attachment |-> Undefined,
                image |-> response.generatedImage]
  IN /\ r \in inflight
     /\ IF \E i \in 1..Len(state.messages) : state.messages[i].id = r.id
        THEN /\ state' = [state EXCEPT !.messages = Append(@, aiMsg), !.isLoading = FALSE]
             /\ nextId' = nextId + 1
        ELSE UNCHANGED << state, nextId >>
     /\ inflight' = inflight \ {r}
     /\ lastOp' = Op("response", r.id, backend.ok, FALSE)
     /\ UNCHANGED << searchTerm, isSaving, saveTimers, storage, sent, outlivedReset >>
     /\ UNCHANGED << inputVars, callVars >>

\* ResponseArrives with the bug of appending to the history captured at send
\* time instead of the messages held at completion time
ResponseArrives_CapturedHistory(r, backend) ==
  LET response == sendMessageToGemini(r.prompt, r.history, r.attachment, backend)
      aiMsg == [id |-> nextId, role |-> "model", text |-> response.text,
                timestamp |-> Now(nextId), attachment |-> Undefined,
                image |-> response.generatedImage]
  IN /\ r \in inflight
     /\ state' = [state EXCEPT !.messages = Append(r.history, aiMsg), !.isLoading = FALSE]
     /\ inflight' = inflight \ {r}
     /\ nextId' = nextId + 1
     /\ lastOp' = Op("response", r.id, backend.ok, FALSE)
     /\ UNCHANGED << searchTerm, isSaving, saveTimers, storage, sent, outlivedReset >>
     /\ UNCHANGED << inputVars, callVars >>

\* ResponseArrives with the bug of putting the answer in front of the
\* messages
ResponseArrives_NewestFirst(r, backend) ==
  LET response == sendMessageToGemini(r.prompt, r.history, r.attachment, backend)
      aiMsg == [id |-> nextId, role |-> "model", text |-> response.text,
                timestamp |-> Now(nextId), attachment |-> Undefined,
                image |-> response.generatedImage]
  IN /\ r \in inflight
     /\ state' = [state EXCEPT !.messages = <<aiMsg>> \o @, !.isLoading = FALSE]
     /\ inflight' = inflight \ {r}
     /\ nextId' = nextId + 1
     /\ lastOp' = Op("response", r.id, backend.ok, FALSE)
     /\ UNCHANGED << searchTerm, isSaving, saveTimers, storage, sent, outlivedReset >>
     /\ UNCHANGED << inputVars, callVars >>

\* handleSendMessage after its await: the call r resolves with what the
\* backend answered
ResponseArrives(r, backend) ==
  LET response == sendMessageToGemini(r.prompt, r.history, r.attachment, backend)
      aiMsg == [id |-> nextId, role |-> "model", text |-> response.text,
                timestamp |-> Now(nextId), attachment |-> Undefined,
                image |-> response.generatedImage]
  IN /\ r \in inflight
     /\ state' = [state EXCEPT !.messages = Append(@, aiMsg), !.isLoading = FALSE]
     /\ inflight' = inflight \ {r}
     /\ nextId' = nextId + 1
     /\ lastOp' = Op("response", r.id, backend.ok, FALSE)
     /\ UNCHANGED << searchTerm, isSaving, saveTimers, storage, sent, outlivedReset >>
     /\ UNCHANGED << inputVars, callVars >>

\* handleSubjectSelect with the bug of opening a new conversation for the
\* subject
handleSubjectSelect_StartsNewChat(subjectName) ==
  /\ state' = [messages |-> <<>>, isLoading |-> FALSE, selectedSubject |-> subjectName]
  /\ lastOp' = Op("subject", 0, TRUE, FALSE)
  /\ UNCHANGED << searchTerm, isSaving, saveTimers, storage, inflight, nextId, sent, outlivedReset >>
  /\ UNCHANGED << inputVars, callVars >>

\* a subject button of the sidebar
handleSubjectSelect(subjectName) ==
  /\ state' = [state EXCEPT !.selectedSubject = subjectName]
  /\ lastOp' = Op("subject", 0, TRUE, FALSE)
  /\ UNCHANGED << searchTerm, isSaving, saveTimers, storage, inflight, nextId, sent, outlivedReset >>
  /\ UNCHANGED << inputVars, callVars >>

\* resetChat with the bug of leaving the saved snapshot to the next auto-save
resetChat_KeepsSnapshot(confirmed) ==
  /\ IF confirmed
     THEN /\ state' = [messages |-> <<>>, isLoading |-> FALSE, selectedSubject |-> Null]
          /\ searchTerm' = <<>>
          /\ outlivedReset' = outlivedReset \cup InflightIds
     ELSE UNCHANGED << state, searchTerm, outlivedReset >>
  /\ lastOp' = Op("reset", 0, confirmed, FALSE)
  /\ UNCHANGED << storage, isSaving, saveTimers, inflight, nextId, sent, inputVars, callVars >>

\* the Clear Conversation button; confirmed is the answer to window.confirm
resetChat(confirmed) ==
  /\ IF confirmed
     THEN /\ state' = [messages |-> <<>>, isLoading |-> FALSE, selectedSubject |-> Null]
          /\ searchTerm' = <<>>
          /\ storage' = NoSnapshot
          /\ outlivedReset' = outlivedReset \cup InflightIds
     ELSE UNCHANGED << state, searchTerm, storage, outlivedReset >>
  /\ lastOp' = Op("reset", 0, confirmed, FALSE)
  /\ UNCHANGED << isSaving, saveTimers, inflight, nextId, sent, inputVars, callVars >>

\* the Back to Home button, rendered while there are messages
goHome ==
  /\ Len(state.messages) > 0
  /\ state' = [state EXCEPT !.messages = <<>>, !.selectedSubject = Null]
  /\ searchTerm' = <<>>
  /\ lastOp' = Op("home", 0, TRUE, FALSE)
  /\ UNCHANGED << isSaving, saveTimers, storage, inflight, nextId, sent, outlivedReset >>
  /\ UNCHANGED << inputVars, callVars >>

\* typing in the search box (disabled while there are no messages)
setSearchTerm(term) ==
  /\ Len(state.messages) # 0
  /\ term # searchTerm
  /\ searchTerm' = term
  /\ lastOp' = Op("search", 0, TRUE, FALSE)
  /\ UNCHANGED << state, isSaving, saveTimers, storage, inflight, nextId, sent, outlivedReset >>
  /\ UNCHANGED << inputVars, callVars >>

\* AutosaveTick with the bug of writing whether or not there are messages
AutosaveTick_WritesEmptySession(writeFails) ==
  /\ SavingDisplayMs < SaveIntervalMs => saveTimers = 0
  /\ isSaving' = TRUE
  /\ IF writeFails
     THEN /\ UNCHANGED << storage, saveTimers >>
          /\ lastOp' = Op("autosave", 0, FALSE, TRUE)
     ELSE /\ storage' = Serialize(state)
          /\ saveTimers' = saveTimers + 1
          /\ lastOp' = Op("autosave", 0, TRUE, FALSE)
  /\ UNCHANGED << state, searchTerm, inflight, nextId, sent, outlivedReset, inputVars, callVars >>

\* the setInterval callback; writeFails: localStorage.setItem throws (quota).
\* The timeout of the previous tick has fired before the interval elapses
\* again, the display duration being shorter than the interval.
AutosaveTick(writeFails) ==
  /\ SavingDisplayMs < SaveIntervalMs => saveTimers = 0
  /\ IF Len(state.messages) > 0
     THEN /\ isSaving' = TRUE
          /\ IF writeFails
             THEN \* setItem throws: nothing catches it, the timeout is never set
                  /\ UNCHANGED << storage, saveTimers >>
                  /\ lastOp' = Op("autosave", 0, FALSE, TRUE)
             ELSE /\ storage' = Serialize(state)
                  /\ saveTimers' = saveTimers + 1
                  /\ lastOp' = Op("autosave", 0, TRUE, FALSE)
     ELSE /\ UNCHANGED << isSaving, storage, saveTimers >>
          /\ lastOp' = Op("autosave", 0, FALSE, FALSE)
  /\ UNCHANGED << state, searchTerm, inflight, nextId, sent, outlivedReset, inputVars, callVars >>

\* the setTimeout callback of a tick
SavingTimeout ==
  /\ saveTimers > 0
  /\ isSaving' = FALSE
  /\ saveTimers' = saveTimers - 1
  /\ lastOp' = Op("savingTimeout", 0, TRUE, FALSE)
  /\ UNCHANGED << state, searchTerm, storage, inflight, nextId, sent, outlivedReset >>
  /\ UNCHANGED << inputVars, callVars >>

\* the page is loaded again: App is constructed from the store, and the
\* timers and pending calls of the previous page are gone
Reload(readThrows) ==
  /\ state' = RestoreState(storage, readThrows)
  /\ searchTerm' = <<>>
  /\ isSaving' = FALSE
  /\ saveTimers' = 0
  /\ inflight' = {}
  /\ outlivedReset' = {}
  /\ lastOp' = Op("start", 0, readThrows, FALSE)
  /\ inputText' = <<>>
  /\ selectedAttachment' = Undefined
  /\ UNCHANGED << storage, nextId, sent, args, result >>

\* the steps of the conversation: they read or write the session
Conversation ==
  \/ \E c \in Compositions : handleSend(c)
  \/ \E text \in Suggestions : onSelectSuggestion(text)
  \/ handleSummarize
  \/ \E r \in inflight : \E backend \in BackendResponses : ResponseArrives(r, backend)
  \/ \E subjectName \in SubjectNames : handleSubjectSelect(subjectName)
  \/ \E confirmed \in BOOLEAN : resetChat(confirmed)
  \/ goHome

\* the steps around it: search box, auto-save timers, page load
Housekeeping ==
  \/ \E term \in SearchTerms : setSearchTerm(term)
  \/ \E writeFails \in BOOLEAN : AutosaveTick(writeFails)
  \/ SavingTimeout
  \/ \E readThrows \in BOOLEAN : Reload(readThrows)

\* the whole client, up to MaxSavedMessages messages
Next == (Conversation /\ nextId' <= MaxSavedMessages + 1) \/ Housekeeping

Spec == Init /\ [][Next]_vars

\* one page lifetime of the conversation alone, up to MaxSends sends
ConvSpec == Init /\ [][Conversation]_vars

\* the ids a message or a call can have within the bound
MessageIds == 1..(2 * MaxSends)

\* a pending call resolves once the backend has answered or failed, and the
\* event loop then resumes the handler that awaits it
Fairness ==
  \A id \in MessageIds :
    WF_vars(\E r \in inflight : \E backend \in BackendResponses :
              r.id = id /\ ResponseArrives(r, backend))

\* One page lifetime of the conversation, started without a snapshot, in
\* which every pending call completes. The housekeeping steps leave state
\* and inflight as they are, except the page load, which abandons the
\* pending calls instead of letting them complete.
LiveInit == Init /\ storage = NoSnapshot /\ ~lastOp.arg

\* the steps that start, complete or outlive a call; selecting a subject and
\* declining the reset touch neither isLoading nor the pending calls
LiveNext ==
  \/ \E c \in Compositions : handleSend(c)
  \/ \E text \in Suggestions : onSelectSuggestion(text)
  \/ handleSummarize
  \/ \E r \in inflight : \E backend \in BackendResponses : ResponseArrives(r, backend)
  \/ resetChat(TRUE)
  \/ goHome

LiveSpec == LiveInit /\ [][LiveNext]_vars /\ Fairness

(* ---------------------------- the input area -------------------------- *)

\* App constructed over an empty store, before any handler has run
FreshApp ==
  /\ state = DefaultState
  /\ searchTerm = <<>>
  /\ isSaving = FALSE
  /\ saveTimers = 0
  /\ storage = NoSnapshot
  /\ inflight = {}
  /\ nextId = 1
  /\ sent = 0
  /\ lastOp = Op("start", 0, FALSE, FALSE)
  /\ outlivedReset = {}

\* prefixesToRemove.forEach: each conflicting prefix is looked for once, in
\* the order of the array
RECURSIVE RemovePrefixes(_, _)
RemovePrefixes(newText, prefixesToRemove) ==
  IF prefixesToRemove = <<>> THEN newText
  ELSE LET p == Head(prefixesToRemove) IN
       RemovePrefixes(IF StartsWith(newText, p)
                      THEN SubSeq(newText, Len(p) + 1, Len(newText)) ELSE newText,
                      Tail(prefixesToRemove))

\* TogglePrefix with the bug of prepending the prefix whether or not the
\* draft has it
TogglePrefix_AlwaysPrepends(text, prefix, prefixesToRemove) ==
  prefix \o RemovePrefixes(text, prefixesToRemove)

\* the body shared by the three intent buttons' handlers
TogglePrefix(text, prefix, prefixesToRemove) ==
  LET newText == RemovePrefixes(text, prefixesToRemove)
  IN IF StartsWith(newText, prefix)
     THEN SubSeq(newText, Len(prefix) + 1, Len(newText))
     ELSE prefix \o newText

handleExplainClick ==
  /\ inputText' = TogglePrefix(inputText, ExplainPrefix, << ExamPrefix, ChartPrefix >>)
  /\ lastOp' = Op("explain", 0, TRUE, FALSE)
  /\ UNCHANGED << state, searchTerm, isSaving, saveTimers, storage, inflight, nextId, sent >>
  /\ UNCHANGED << outlivedReset, selectedAttachment, callVars >>

handleExamModeClick ==
  /\ inputText' = TogglePrefix(inputText, ExamPrefix, << ExplainPrefix, ChartPrefix >>)
  /\ lastOp' = Op("exam", 0, TRUE, FALSE)
  /\ UNCHANGED << state, searchTerm, isSaving, saveTimers, storage, inflight, nextId, sent >>
  /\ UNCHANGED << outlivedReset, selectedAttachment, callVars >>

handleChartClick ==
  /\ inputText' = TogglePrefix(inputText, ChartPrefix, << ExplainPrefix, ExamPrefix >>)
  /\ lastOp' = Op("chart", 0, TRUE, FALSE)
  /\ UNCHANGED << state, searchTerm, isSaving, saveTimers, storage, inflight, nextId, sent >>
  /\ UNCHANGED << outlivedReset, selectedAttachment, callVars >>

\* a draft has been typed into the box of a fresh page
ToggleInit ==
  /\ FreshApp
  /\ inputText \in Drafts
  /\ selectedAttachment = Undefined
  /\ args = NoCall
  /\ result = NoCall

ToggleNext == handleExplainClick \/ handleExamModeClick \/ handleChartClick

\* the intent buttons pressed in any order on any draft
ToggleSpec == ToggleInit /\ [][ToggleNext]_vars

(* ------------------------- the service, called ------------------------ *)

\* one call of the service: the request it hands to the backend and what it
\* returns to its caller, for what the backend answers
ServiceCall(backend) ==
  /\ args.fn = "sendMessageToGemini"
  /\ result = NoCall
  /\ result' = [fn |-> "sendMessageToGemini",
                backend |-> backend,
                request |-> GeminiRequest(args.prompt, args.history, args.attachment),
                response |-> sendMessageToGemini(args.prompt, args.history,
                                                 args.attachment, backend)]
  /\ UNCHANGED << appVars, inputVars, args >>

ServiceInit ==
  /\ FreshApp
  /\ inputText = <<>>
  /\ selectedAttachment = Undefined
  /\ args \in ServiceCalls
  /\ result = NoCall

ServiceNext == \E backend \in ServiceResponses : ServiceCall(backend)

\* sendMessageToGemini called with any prompt, history and attachment
ServiceSpec == ServiceInit /\ [][ServiceNext]_vars

(* --------------------------- the classifier --------------------------- *)

\* isTextBased called on a media type
Classify ==
  /\ args.fn = "isTextBased"
  /\ result = NoCall
  /\ result' = [fn |-> "isTextBased", value |-> isTextBased(args.mimeType)]
  /\ UNCHANGED << appVars, inputVars, args >>

ClassifyInit ==
  /\ FreshApp
  /\ inputText = <<>>
  /\ selectedAttachment = Undefined
  /\ args \in { [fn |-> "isTextBased", mimeType |-> mimeType] : mimeType \in MediaTypes }
  /\ result = NoCall

\* isTextBased called with any media type
ClassifySpec == ClassifyInit /\ [][Classify]_vars

(* --------------------------- the file picker -------------------------- *)

\* FileReader.readAsDataURL: the data URL of the file's content
ReadAsDataURL(file) ==
  <<"data:">> \o (IF file.type = <<>> THEN OctetStream ELSE file.type)
    \o <<";base64", ",", "AAAA">>

\* handleFileSelect with the bug of comparing the extension as it is written
handleFileSelect_CaseSensitive ==
  LET file == args.file
      ext == Last(Split(file.name, "."))
      mimeType ==
        IF file.type = <<>> \/ file.type = OctetStream
        THEN CASE ext = <<"csv">> -> <<"text/", "csv">>
               [] ext = <<"md">> -> <<"text/", "markdown">>
               [] ext = <<"json">> -> <<"application/", "json">>
               [] ext = <<"pdf">> -> <<"application/", "pdf">>
               [] ext = <<"txt">> -> <<"text/", "plain">>
               [] ext = <<"tsv">> -> <<"text/", "tab-separated-values">>
               [] ext = <<"xml">> -> <<"text/", "xml">>
               [] ext \in {<<"yml">>, <<"yaml">>} -> <<"text/", "yaml">>
               [] OTHER -> file.type
        ELSE file.type
  IN /\ args.fn = "handleFileSelect"
     /\ selectedAttachment' =
          [data |-> ReadAsDataURL(file),
           mimeType |-> IF mimeType # <<>> THEN mimeType ELSE OctetStream,
           name |-> file.name]
     /\ lastOp' = Op("file", 0, TRUE, FALSE)
     /\ UNCHANGED << state, searchTerm, isSaving, saveTimers, storage, inflight, nextId, sent >>
     /\ UNCHANGED << outlivedReset, inputText, callVars >>

\* the file input's onChange, with the file reader's onloadend: args.file is
\* e.target.files[0]
handleFileSelect ==
  LET file == args.file
      ext == toLowerCase(Last(Split(file.name, ".")))
      mimeType ==
        IF file.type = <<>> \/ file.type = OctetStream
        THEN CASE ext = <<"csv">> -> <<"text/", "csv">>
               [] ext = <<"md">> -> <<"text/", "markdown">>
               [] ext = <<"json">> -> <<"application/", "json">>
               [] ext = <<"pdf">> -> <<"application/", "pdf">>
               [] ext = <<"txt">> -> <<"text/", "plain">>
               [] ext = <<"tsv">> -> <<"text/", "tab-separated-values">>
               [] ext = <<"xml">> -> <<"text/", "xml">>
               [] ext \in {<<"yml">>, <<"yaml">>} -> <<"text/", "yaml">>
               [] OTHER -> file.type
        ELSE file.type
  IN /\ args.fn = "handleFileSelect"
     /\ selectedAttachment' =
          [data |-> ReadAsDataURL(file),
           mimeType |-> IF mimeType # <<>> THEN mimeType ELSE OctetStream,
           name |-> file.name]
     /\ lastOp' = Op("file", 0, TRUE, FALSE)
     /\ UNCHANGED << state, searchTerm, isSaving, saveTimers, storage, inflight, nextId, sent >>
     /\ UNCHANGED << outlivedReset, inputText, callVars >>

FileInit ==
  /\ FreshApp
  /\ inputText = <<>>
  /\ selectedAttachment = Undefined
  /\ args \in { [fn |-> "handleFileSelect", file |-> file] : file \in Files }
  /\ result = NoCall

\* a file of any name and declared type chosen in the file picker
FileSpec == FileInit /\ [][handleFileSelect]_vars

(* ---------------------------- the search box --------------------------- *)

\* the messages the chat area renders
displayedMessages ==
  LET matches(msg) == Includes(toLowerCase(msg.text), toLowerCase(searchTerm))
  IN IF Trim(searchTerm) # <<>> THEN SelectSeq(state.messages, matches) ELSE state.messages

\* a session of one question and its answer, of any texts
SearchInit ==
  /\ \E question \in SearchTexts : \E answer \in SearchTexts \ {<<>>} :
       state = [messages |->
                  << [id |-> 1, role |-> "user", text |-> question, timestamp |-> Now(1),
                      attachment |-> Undefined, image |-> Undefined],
                     [id |-> 2, role |-> "model", text |-> answer, timestamp |-> Now(2),
                      attachment |-> Undefined, image |-> Undefined] >>,
                isLoading |-> FALSE, selectedSubject |-> Null]
  /\ searchTerm = <<>>
  /\ isSaving = FALSE
  /\ saveTimers = 0
  /\ storage = NoSnapshot
  /\ inflight = {}
  /\ nextId = 3
  /\ sent = 1
  /\ lastOp = Op("response", 1, TRUE, FALSE)
  /\ outlivedReset = {}
  /\ inputText = <<>>
  /\ selectedAttachment = Undefined
  /\ args = NoCall
  /\ result = NoCall

SearchNext == \E term \in SearchTexts : setSearchTerm(term)

\* typing in the search box of a session, character by character
SearchSpec == SearchInit /\ [][SearchNext]_vars

(* ------------------------------- claims ------------------------------- *)

\* C1: isLoading is true if and only if at least one call issued by
\* handleSendMessage is still in flight.
C1_BusyIffInFlight == state.isLoading <=> (inflight # {})

\* C2: at most one backend request is outstanding at any time.
C2_AtMostOneOutstanding == Cardinality(inflight) <= 1

\* the response to call id has just been applied: a model message is the
\* last message and the loading flag is down
Answered(id) ==
  /\ lastOp.op = "response" /\ lastOp.id = id
  /\ ~state.isLoading
  /\ state.messages # <<>>
  /\ Last(state.messages).role = "model"

\* C3: every send is eventually answered, whatever the backend does
\* (answer, empty answer, failure). A pending call leads to the state in
\* which its response has been appended as a model message with isLoading
\* false; a call leaves the pending set only by such a step, which appends
\* exactly one message; and the loading state never lasts forever.
C3_EverySendAnswered ==
  /\ \A id \in MessageIds : (id \in InflightIds) ~> Answered(id)
  /\ state.isLoading ~> ~state.isLoading
  /\ [][\A id \in InflightIds :
          id \notin InflightIds' =>
            /\ Answered(id)'
            /\ Len(state'.messages) = Len(state.messages) + 1
            /\ \A other \in InflightIds \ {id} : other \in InflightIds']_vars

C3_Witness ==
  /\ lastOp.op = "response" /\ ~lastOp.arg
  /\ Answered(lastOp.id)
  /\ Last(state.messages).text = HardFailureText
  /\ inflight = {}

\* is m the model message that sendMessageToGemini yields for call r?
IsResponseTo(m, r) ==
  /\ m.role = "model"
  /\ \E backend \in BackendResponses :
       LET response == sendMessageToGemini(r.prompt, r.history, r.attachment, backend)
       IN m.text = response.text /\ m.image = response.generatedImage

\* C4: the response to a call that was pending when a reset was confirmed
\* is not dropped: it is appended as a model message to the end of the
\* messages held when it arrives (it is the only message when it arrives
\* right after the reset), and isLoading becomes false.
C4_ResponseAfterResetAppended ==
  [][(lastOp'.op = "response" /\ lastOp'.id \in outlivedReset) =>
       /\ Len(state'.messages) = Len(state.messages) + 1
       /\ SubSeq(state'.messages, 1, Len(state.messages)) = state.messages
       /\ \E r \in inflight : r.id = lastOp'.id /\ IsResponseTo(Last(state'.messages), r)
       /\ ~state'.isLoading
       /\ (lastOp.op = "reset" /\ lastOp.arg) => Len(state'.messages) = 1]_vars

C4_Witness ==
  /\ lastOp.op = "response" /\ lastOp.id \in outlivedReset
  /\ Len(state.messages) = 1
  /\ state.messages[1].role = "model"
  /\ ~state.isLoading

\* C5: a confirmed reset leaves the session equal to the empty default and
\* removes the durable snapshot in the same step; an unconfirmed reset
\* changes neither the session nor the snapshot.
C5_ResetClearsSessionAndSnapshot ==
  [][lastOp'.op = "reset" =>
       IF lastOp'.arg
       THEN /\ state' = [messages |-> <<>>, isLoading |-> FALSE, selectedSubject |-> Null]
            /\ storage' = NoSnapshot
       ELSE state' = state /\ storage' = storage]_vars

C5_Witness ==
  /\ lastOp.op = "reset" /\ lastOp.arg
  /\ sent > 0
  /\ inflight # {}
  /\ state = DefaultState
  /\ storage = NoSnapshot

C7_RestoreAfterPersistRoundTrip ==
  (lastOp.op = "autosave" /\ lastOp.arg) =>
    LET restored == RestoreState(storage, FALSE) IN
    /\ restored.messages = state.messages
    /\ restored.selectedSubject = state.selectedSubject
    /\ restored.isLoading = FALSE

C7_Witness ==
  /\ lastOp.op = "autosave" /\ lastOp.arg
  /\ state.isLoading
  /\ storage.tree.isLoading
  /\ \E i \in 1..Len(state.messages) :
       /\ state.messages[i].attachment # Undefined
       /\ state.messages[i].timestamp % 1000 # 0

\* C8: when the page starts and reading the snapshot fails (the read throws,
\* the stored text is not JSON, or it holds no usable messages array), or
\* when there is no snapshot, the session is the empty default.
C8_RestoreFailureFallsBackToDefault ==
  (/\ lastOp.op = "start"
   /\ \/ lastOp.arg
      \/ storage = NoSnapshot
      \/ ~storage.json
      \/ "messages" \notin DOMAIN storage.tree
      \/ storage.tree.messages.type # "array")
  => state = [messages |-> <<>>, isLoading |-> FALSE, selectedSubject |-> Null]

C8_Witness ==
  /\ lastOp.op = "start" /\ ~lastOp.arg
  /\ storage = JsonMessagesNotArray
  /\ state = DefaultState
  /\ sent > 0

\* C9: a failure of the durable write in an auto-save tick is swallowed
\* inside the tick: nothing is thrown out of the timer callback, and the
\* saving signal does not stay set (a timeout that clears it is pending).
C9_WriteFailureSwallowed ==
  (lastOp.op = "autosave" /\ Len(state.messages) > 0 /\ ~lastOp.arg) =>
    /\ ~lastOp.threw
    /\ isSaving => saveTimers > 0

\* C10: the message sequence is append-only between resets: every step of a
\* running page appends exactly one message at the end of messages, or
\* empties messages, or leaves messages as they are.
C10_MessagesAppendOnly ==
  [][lastOp'.op # "start" =>
       \/ state'.messages = state.messages
       \/ state'.messages = <<>>
       \/ /\ Len(state'.messages) = Len(state.messages) + 1
          /\ SubSeq(state'.messages, 1, Len(state.messages)) = state.messages]_vars

C10_Witness ==
  /\ lastOp.op = "response"
  /\ Len(state.messages) = MaxSavedMessages
  /\ \A i \in 1..Len(state.messages) : state.messages[i].id = i

\* C11: selecting a subject changes the selected subject only: the messages,
\* isLoading and the stored snapshot are what they were before the step,
\* also while a call is pending.
C11_SubjectSelectChangesOnlySubject ==
  [][lastOp'.op = "subject" =>
       /\ state'.selectedSubject \in SubjectNames
       /\ state'.messages = state.messages
       /\ state'.isLoading = state.isLoading
       /\ storage' = storage]_vars

\* a subject was selected while a call was pending, with messages in the
\* session and a snapshot in the store
C11_Witness ==
  /\ lastOp.op = "subject"
  /\ inflight # {}
  /\ state.isLoading
  /\ state.messages # <<>>
  /\ storage # NoSnapshot

\* the text contains the term, letter case ignored
ContainsIgnoringCase(text, term) ==
  \E i \in 0..(Len(text) - Len(term)) :
    \A j \in 1..Len(term) : toLowerCase(<<text[i + j]>>) = toLowerCase(<<term[j]>>)

\* C12: the chat area renders all the messages when the search term is
\* empty, and for every non-empty term (a term of white space only, or
\* with spaces around it, included) exactly the messages whose text
\* contains the term, letter case ignored, in their order.
C12_SearchShowsMessagesContainingTerm ==
  LET contains(msg) == ContainsIgnoringCase(msg.text, searchTerm)
  IN displayedMessages =
       IF searchTerm = <<>> THEN state.messages ELSE SelectSeq(state.messages, contains)

\* C13: every pending call whose draft starts with "Generate Image: " hands
\* the backend an image-generation request of the draft without that
\* prefix, whatever subject was selected when it was sent, and every other
\* draft goes to the chat model with the assembled turns.
C13_ImagePrefixDecidesRouting ==
  \A r \in inflight : \A i \in 1..Len(state.messages) :
    state.messages[i].id = r.id =>
      LET draft == state.messages[i].text
          request == GeminiRequest(r.prompt, r.history, r.attachment)
      IN IF StartsWith(draft, <<"Generate Image:", " ">>)
         THEN /\ request.model = ImageModel
              /\ request.contents.parts = << [text |-> SubSeq(draft, 3, Len(draft))] >>
         ELSE /\ request.model = ChatModel
              /\ Len(request.contents) = Len(r.history) + 1

\* the three buttons: the prefix each toggles and the prefixes it removes
IntentToggles ==
  { [op |-> "explain", prefix |-> ExplainPrefix, remove |-> << ExamPrefix, ChartPrefix >>],
    [op |-> "exam", prefix |-> ExamPrefix, remove |-> << ExplainPrefix, ChartPrefix >>],
    [op |-> "chart", prefix |-> ChartPrefix, remove |-> << ExplainPrefix, ExamPrefix >>] }

RecognizedPrefixes == { ExplainPrefix, ExamPrefix, ChartPrefix }

StartsWithNoPrefix(text) == \A p \in RecognizedPrefixes : ~StartsWith(text, p)

Twice(t, text) == TogglePrefix(TogglePrefix(text, t.prefix, t.remove), t.prefix, t.remove)

\* C14, as stated: pressing the same intent button twice gives back the
\* draft, whatever the draft starts with.
C14_ToggleTwiceRestoresDraft ==
  \A t \in IntentToggles : Twice(t, inputText) = inputText

\* C14, amended: pressing the same intent button twice gives back the draft
\* when the draft, after one leading copy of the button's own prefix if it
\* has one, starts with no recognized prefix.
C14_ToggleTwiceRestoresPlainDraft ==
  \A t \in IntentToggles :
    LET body == IF StartsWith(inputText, t.prefix)
                THEN SubSeq(inputText, Len(t.prefix) + 1, Len(inputText))
                ELSE inputText
    IN StartsWithNoPrefix(body) => Twice(t, inputText) = inputText

\* the Explain button has put its prefix in front of a plain draft, which
\* the next press removes again
C14_Witness ==
  /\ lastOp.op = "explain"
  /\ inputText = ExplainPrefix \o <<"x">>
  /\ TogglePrefix(inputText, ExplainPrefix, << ExamPrefix, ChartPrefix >>) = <<"x">>

\* C15: after any intent button is pressed on any draft, the draft starts
\* with at most one recognized prefix: what follows a recognized prefix at
\* its start does not start with a different recognized prefix, in
\* whatever order the prefixes were stacked before.
C15_AtMostOneIntentPrefix ==
  [][\A p \in RecognizedPrefixes :
       StartsWith(inputText', p) =>
         \A q \in RecognizedPrefixes \ {p} :
           ~StartsWith(SubSeq(inputText', Len(p) + 1, Len(inputText')), q)]_vars

\* the data URL of an inline image part
DataUrl(part) ==
  <<"data:">> \o part.inlineData.mimeType \o <<";base64", ",">> \o part.inlineData.data

IsImagePart(part) == part.inlineData # Undefined

\* the call under study went to the image model and the backend answered
ImageAnswered ==
  /\ result.fn = "sendMessageToGemini"
  /\ result.request.model = ImageModel
  /\ result.backend.ok

\* C16: the response to an image request has the texts of all the text
\* parts, joined in their order, and the first inline image among the parts
\* (none when there is no inline image).
C16_FirstInlineImageIsKept ==
  ImageAnswered =>
    LET parts == result.backend.parts
        images == { i \in 1..Len(parts) : IsImagePart(parts[i]) }
        texts == ResponseText(parts)
    IN /\ texts # <<>> => result.response.text = texts
       /\ result.response.generatedImage =
            IF images = {} THEN Undefined
            ELSE DataUrl(parts[CHOOSE i \in images : \A j \in images : i <= j])

\* C17: the service always returns a text that is not empty: the hard
\* failure text when the call failed, the soft failure text (another text)
\* when the chat model answered without text, and the canned caption with
\* an image of the response when the image model answered without text.
C17_AlwaysReturnsText ==
  result.fn = "sendMessageToGemini" =>
    LET backend == result.backend
        response == result.response
        images == { i \in 1..Len(backend.parts) : IsImagePart(backend.parts[i]) }
    IN /\ response.text # <<>>
       /\ HardFailureText # SoftFailureText
       /\ ~backend.ok => response = [text |-> HardFailureText, generatedImage |-> Undefined]
       /\ (backend.ok /\ result.request.model = ChatModel /\ backend.text = <<>>)
            => response = [text |-> SoftFailureText, generatedImage |-> Undefined]
       /\ (backend.ok /\ result.request.model = ImageModel /\ ResponseText(backend.parts) = <<>>)
            => /\ response.text = ImageFallbackText
               /\ images # {} =>
                    \E i \in images : response.generatedImage = DataUrl(backend.parts[i])

\* the image model answered with an image and no text, and the caller got
\* the caption with the image
C17_Witness ==
  /\ ImageAnswered
  /\ Len(result.backend.parts) = 1
  /\ IsImagePart(result.backend.parts[1])
  /\ result.response.text = ImageFallbackText
  /\ result.response.generatedImage # Undefined

\* the inline data parts among the parts of a turn
InlineParts(parts) == { i \in 1..Len(parts) : "inlineData" \in DOMAIN parts[i] }

\* the call under study went to the chat model with the assembled turns
ChatRequested ==
  /\ result.fn = "sendMessageToGemini"
  /\ result.request.model = ChatModel
  /\ Len(result.request.contents) = Len(args.history) + 1

\* C20: in the request assembled for the chat model, the turn of a message
\* (of the history, or the one being sent) with an attachment of a text
\* type has no inline data part, and the turn of a message with an
\* attachment of another type has exactly one, of the attachment's type.
C20_InlineDataOnlyForBinaryAttachments ==
  ChatRequested =>
    \A i \in 1..(Len(args.history) + 1) :
      LET attachment == IF i <= Len(args.history) THEN args.history[i].attachment
                        ELSE args.attachment
          parts == result.request.contents[i].parts
      IN attachment # Undefined =>
           IF isTextBased(attachment.mimeType)
           THEN InlineParts(parts) = {}
           ELSE /\ Cardinality(InlineParts(parts)) = 1
                /\ \A k \in InlineParts(parts) :
                     parts[k].inlineData.mimeType = attachment.mimeType

\* a request assembled from a history with a CSV file and a PDF file, for a
\* message with an image file
C20_Witness ==
  /\ ChatRequested
  /\ Len(args.history) = MaxHistory
  /\ args.history[1].attachment = CsvAttachment
  /\ args.history[Len(args.history)].attachment = PdfAttachment
  /\ args.attachment = PngAttachment
  /\ InlineParts(result.request.contents[1].parts) = {}

\* C18: isTextBased answers true exactly for the media types that start
\* with text/, are application/json, application/xml or
\* application/x-yaml, or have csv or script somewhere in them; the other
\* types, image/png, application/pdf and application/octet-stream among
\* them, are binary.
C18_TextualTypes ==
  result.fn = "isTextBased" =>
    LET type == args.mimeType IN
    /\ result.value <=>
         \/ Len(type) > 0 /\ type[1] = "text/"
         \/ type \in { <<"application/", "json">>, <<"application/", "xml">>,
                       <<"application/", "x-yaml">> }
         \/ \E i \in 1..Len(type) : type[i] \in {"csv", "script"}
    /\ (Len(type) > 0 /\ type[1] = "image/"
          /\ (\A i \in 1..Len(type) : type[i] \notin {"csv", "script"}))
         => ~result.value
    /\ type \in { <<"application/", "pdf">>, OctetStream } => ~result.value

\* application/javascript was classified, as a text type
C18_Witness ==
  /\ result.fn = "isTextBased"
  /\ args.mimeType = <<"application/", "java", "script">>
  /\ result.value
  /\ ~isTextBased(<<"image/", "png">>)

\* C19: when the browser declares no type or application/octet-stream for
\* the selected file, the attachment gets the type the table gives for its
\* extension (csv, md, json, pdf, txt, tsv, xml, yml, yaml, in any letter
\* case), and application/octet-stream, a binary type, for any other
\* extension; a specific declared type is kept whatever the extension.
C19_ExtensionResolvesGenericType ==
  lastOp.op = "file" =>
    LET declared == args.file.type
        pieces == Split(args.file.name, ".")
        ext == toLowerCase(pieces[Len(pieces)])
        type == selectedAttachment.mimeType
    IN IF declared # <<>> /\ declared # OctetStream
       THEN type = declared
       ELSE CASE ext = <<"csv">> -> type = <<"text/", "csv">>
              [] ext = <<"md">> -> type = <<"text/", "markdown">>
              [] ext = <<"json">> -> type = <<"application/", "json">>
              [] ext = <<"pdf">> -> type = <<"application/", "pdf">>
              [] ext = <<"txt">> -> type = <<"text/", "plain">>
              [] ext = <<"tsv">> -> type = <<"text/", "tab-separated-values">>
              [] ext = <<"xml">> -> type = <<"text/", "xml">>
              [] ext = <<"yml">> -> type = <<"text/", "yaml">>
              [] ext = <<"yaml">> -> type = <<"text/", "yaml">>
              [] OTHER -> type = OctetStream /\ ~isTextBased(type)

\* a file report.CSV of no declared type was selected and became a text/csv
\* attachment
C19_Witness ==
  /\ lastOp.op = "file"
  /\ args.file = [name |-> <<"report", ".", "CSV">>, type |-> <<>>]
  /\ selectedAttachment.mimeType = <<"text/", "csv">>
  /\ isTextBased(selectedAttachment.mimeType)

\* the text part of a message's own text is the last part of the turn
OwnTextLast(parts, text) == Len(parts) >= 1 /\ parts[Len(parts)] = [text |-> text]

\* the parts before the last come from the attachment (or the image) of the
\* message: none without one, and with an attachment a text part that opens
\* with the file marker of its name
FilePartsFirst(parts, attachment, image) ==
  IF attachment # Undefined
  THEN /\ Len(parts) >= 2
       /\ "text" \in DOMAIN parts[1]
       /\ StartsWith(parts[1].text, <<"[Attached File: ">> \o attachment.name \o <<"]">>)
  ELSE IF image # Undefined
  THEN Len(parts) = 2 /\ "inlineData" \in DOMAIN parts[1]
  ELSE Len(parts) = 1

\* C21: the request for the chat model has one turn per message of the
\* history, in the order of the history and with the message's role, then
\* the turn of the message being sent, with the role user; in each turn the
\* parts that come from the attachment precede the message's own text.
C21_TurnsFollowHistoryThenCurrent ==
  (result.fn = "sendMessageToGemini" /\ result.request.model = ChatModel) =>
    LET contents == result.request.contents
        n == Len(args.history)
    IN /\ Len(contents) = n + 1
       /\ \A i \in 1..n :
            /\ contents[i].role = args.history[i].role
            /\ OwnTextLast(contents[i].parts, args.history[i].text)
            /\ FilePartsFirst(contents[i].parts, args.history[i].attachment,
                              args.history[i].image)
       /\ contents[n + 1].role = "user"
       /\ OwnTextLast(contents[n + 1].parts, args.prompt)
       /\ FilePartsFirst(contents[n + 1].parts, args.attachment, Undefined)

\* a request of MaxHistory + 1 turns: a user message with a file, ..., a
\* model message, and the message being sent with a file of its own
C21_Witness ==
  /\ ChatRequested
  /\ Len(args.history) = MaxHistory
  /\ args.history[1].role = "user"
  /\ args.history[1].attachment = CsvAttachment
  /\ args.history[Len(args.history)].role = "model"
  /\ args.attachment = PdfAttachment
  /\ Len(result.request.contents[Len(args.history) + 1].parts) > 2

\* C22: the turn of the message being sent has the parts that a user
\* message of the history with the same attachment and the same text has;
\* for an attachment of a text type the first part ends with the closing
\* marker [End of File].
C22_CurrentTurnAssembledAsHistoryTurn ==
  ChatRequested =>
    LET parts == result.request.contents[Len(args.history) + 1].parts
        sameMessage == [id |-> 0, role |-> "user", text |-> args.prompt, timestamp |-> 0,
                        attachment |-> args.attachment, image |-> Undefined]
    IN /\ parts = HistoryParts(sameMessage)
       /\ (args.attachment # Undefined /\ isTextBased(args.attachment.mimeType))
            => parts[1].text[Len(parts[1].text)] = "[End of File]"

\* C23: every turn of the request for the chat model has at least one
\* part, and its last part is the text part of the message's own text,
\* also when the text is empty and when the message has no attachment.
C23_EveryTurnEndsWithOwnText ==
  (result.fn = "sendMessageToGemini" /\ result.request.model = ChatModel) =>
    LET contents == result.request.contents
        n == Len(args.history)
    IN \A i \in 1..Len(contents) :
         LET parts == contents[i].parts
             text == IF i <= n THEN args.history[i].text ELSE args.prompt
         IN /\ parts # <<>>
            /\ DOMAIN parts[Len(parts)] = {"text"}
            /\ parts[Len(parts)].text = text

\* an empty prompt sent without attachment: its turn is the one empty text
\* part
C23_Witness ==
  /\ ChatRequested
  /\ args.prompt = <<>>
  /\ args.attachment = Undefined
  /\ args.history # <<>>
  /\ result.request.contents[Len(args.history) + 1].parts = << [text |-> <<>>] >>

\* what follows the first comma of the data, or the data when it has no
\* comma
AfterFirstComma(data) ==
  LET commas == { i \in 1..Len(data) : data[i] = "," }
  IN IF commas = {} THEN data
     ELSE SubSeq(data, (CHOOSE i \in commas : \A j \in commas : i <= j) + 1, Len(data))

\* C24: the payload sent for an attachment is what follows the first comma
\* of its data, also when that is empty or has further commas, and the
\* data unchanged when it has no comma.
C24_PayloadIsWhatFollowsFirstComma ==
  ChatRequested =>
    \A i \in 1..(Len(args.history) + 1) :
      LET attachment == IF i <= Len(args.history) THEN args.history[i].attachment
                        ELSE args.attachment
          parts == result.request.contents[i].parts
      IN (attachment # Undefined /\ ~isTextBased(attachment.mimeType)) =>
           \A k \in InlineParts(parts) :
             parts[k].inlineData.data = AfterFirstComma(attachment.data)

\* the attachment with a payload that decodes
Repaired(attachment) ==
  IF attachment = MalformedCsvAttachment
  THEN [attachment EXCEPT !.data = CsvAttachment.data]
  ELSE attachment

\* the attachment of turn i of the call
TurnAttachment(i) ==
  IF i <= Len(args.history) THEN args.history[i].attachment ELSE args.attachment

\* the text of the message of turn i of the call
TurnText(i) ==
  IF i <= Len(args.history) THEN args.history[i].text ELSE args.prompt

\* C25: a text attachment whose payload is not base64 does not abort the
\* request: its turn has the file part with empty content and then the
\* message's text, every other turn is what it is when the payload decodes,
\* and the backend's answer is what the service returns.
C25_MalformedPayloadDoesNotAbort ==
  ChatRequested =>
    LET n == Len(args.history) + 1
        repaired == GeminiRequest(args.prompt,
                                  [k \in 1..Len(args.history) |->
                                     [args.history[k] EXCEPT !.attachment = Repaired(@)]],
                                  Repaired(args.attachment))
    IN (\E i \in 1..n : TurnAttachment(i) = MalformedCsvAttachment) =>
         /\ \A i \in 1..n :
              LET parts == result.request.contents[i].parts IN
              IF TurnAttachment(i) = MalformedCsvAttachment
              THEN /\ Len(parts) = 2
                   /\ DOMAIN parts[1] = {"text"}
                   /\ StartsWith(parts[1].text,
                                 <<"[Attached File: ">> \o MalformedCsvAttachment.name
                                   \o <<"]", "\n", "\n", "[End of File]">>)
                   /\ parts[2] = [text |-> TurnText(i)]
              ELSE result.request.contents[i] = repaired.contents[i]
         /\ (result.backend.ok /\ result.backend.text # <<>>) =>
              result.response.text = result.backend.text
         /\ result.backend.ok => result.response.text # HardFailureText

C25_Witness ==
  /\ ChatRequested
  /\ args.attachment = MalformedCsvAttachment
  /\ \E i \in 1..Len(args.history) : args.history[i].attachment = MalformedCsvAttachment
  /\ \E i \in 1..Len(args.history) : args.history[i].attachment = PdfAttachment
  /\ result.backend.ok
  /\ result.response.text = <<"Dr Cash 50,000">>

\* C26: the saving signal is set only by an auto-save tick that has written
\* the snapshot, and whenever it is set a timeout that clears it is pending,
\* so it is cleared after the display duration with no user action.
C26_SavingSignalFollowsWrite ==
  [][/\ (isSaving' /\ ~isSaving) =>
          (lastOp'.op = "autosave" /\ lastOp'.arg /\ storage' = Serialize(state))
     /\ isSaving' => saveTimers' > 0]_vars

\* C27: a prompt of the image flow is sent to the image model as one turn
\* with one text part, the prompt without its prefix, whatever the history
\* and the attachment of the call.
C27_ImageRequestIsThePromptAlone ==
  (result.fn = "sendMessageToGemini" /\ StartsWith(args.prompt, ImageIntentPrefix)) =>
    /\ result.request.model = ImageModel
    /\ DOMAIN result.request.contents = {"parts"}
    /\ LET parts == result.request.contents.parts IN
       /\ Len(parts) = 1
       /\ DOMAIN parts[1] = {"text"}
       /\ parts[1].text # <<>>
       /\ Head(parts[1].text) \notin Whitespace
       /\ ImageIntentPrefix \o <<" ">> \o parts[1].text = args.prompt

C27_Witness ==
  /\ result.fn = "sendMessageToGemini"
  /\ result.request.model = ImageModel
  /\ Len(args.history) = MaxHistory
  /\ \E i \in 1..Len(args.history) : args.history[i].attachment # Undefined
  /\ args.attachment = PngAttachment
  /\ result.request.contents.parts = << [text |-> <<"pie chart of expenses">>] >>

\* C28: a confirmed reset or a back-to-home that empties the messages
\* removes the durable snapshot in the same step, so that a page load right
\* after it starts with no messages.
C28_EmptyingRemovesSnapshot ==
  [][(lastOp'.op \in {"reset", "home"} /\ lastOp'.arg /\ state'.messages = <<>>) =>
       /\ storage' = NoSnapshot
       /\ RestoreState(storage', FALSE).messages = <<>>]_vars

RolesAlternate(messages) ==
  \A i \in 1..Len(messages) : messages[i].role = (IF i % 2 = 1 THEN "user" ELSE "model")

SendWhilePending == sent' # sent /\ inflight # {}

\* a response whose user message is no longer the last message: the session
\* was emptied or another message was appended while the call was pending
StaleResponse ==
  \E r \in inflight \ inflight' :
    state.messages = <<>> \/ Last(state.messages).id # r.id

====
